---------------------------- MODULE Spec2Model ----------------------------
(***************************************************************************)
(* Model of the github-code-reviewer scripts:                              *)
(*   scripts/get_pr_diff.py    (get_pr_diff, filter_diff_by_file, main)    *)
(*   scripts/submit_review.py  (submit_review, main)                       *)
(*                                                                         *)
(* A Python str is a sequence of one-character strings.  None is the       *)
(* value NoneV, which is no sequence of characters.                        *)
(***************************************************************************)
EXTENDS Integers, Sequences, FiniteSets, TLC

VARIABLES
    \* ---- filter_diff_by_file, called on its own -------------------------
    fpc,            \* "call" | "filtered" | "refiltered"
    diff,           \* the diff text handed to filter_diff_by_file
    filepath,       \* the target path
    result,         \* what filter_diff_by_file(diff, filepath) returned
    result2,        \* what filter_diff_by_file(result, filepath) returned
    \* ---- get_pr_diff.py as a process -----------------------------------
    gpc,            \* "start" | "resolved" | "built" | "exit"
    pr_identifier,  \* args.pr_identifier
    repo_arg,       \* args.repo
    repo,           \* the local repo of get_pr_diff
    file_arg,       \* args.file
    pr_number,      \* local pr_number
    cmd,            \* the gh command line, a sequence of str
    gh_stdout,      \* result.stdout of gh pr diff
    printed,        \* what main printed on standard output
    gexit,          \* exit status of the process, read once gpc = "exit"
    shape,          \* how pr_identifier was built (input bookkeeping)
    \* ---- submit_review.py as a process ---------------------------------
    rpc,            \* "load" | "sha" | "format" | "post" | "returned" | "exit"
    comments_file,  \* the file at args.comments_file: "missing" | "invalid" | "ok"
    comments,       \* what json.load gives when the file is "ok"
    commit_sha_arg, \* args.commit_sha
    commit_sha,     \* the local commit_sha of submit_review
    body_arg,       \* args.body
    event,          \* args.event
    payload,        \* <<>> until built, then <<the payload>>
    sha_calls,      \* runs of gh pr view
    post_calls,     \* runs of gh api --method POST
    sha_result,     \* "none" | "ok" | "fail"
    post_result,    \* "none" | "ok" | "fail"
    summary,        \* the success summary was printed
    rexit           \* exit status of the process, read once rpc = "exit"

fvars == <<fpc, diff, filepath, result, result2>>
gvars == <<gpc, pr_identifier, repo_arg, repo, file_arg, pr_number, cmd, gh_stdout,
           printed, gexit, shape>>
rvars == <<rpc, comments_file, comments, commit_sha_arg, commit_sha, body_arg,
           event, payload, sha_calls, post_calls, sha_result, post_result,
           summary, rexit>>
vars == <<fvars, gvars, rvars>>

-----------------------------------------------------------------------------
(* Python str and list primitives *)

NL == "\n"
NoneV == <<"<None>">>

\* bool(x) for x a str or None
Truthy(x) == x # NoneV /\ x # <<>>

\* s.startswith(p)
StartsWith(s, p) == Len(s) >= Len(p) /\ SubSeq(s, 1, Len(p)) = p

\* p in s
Contains(s, p) ==
    \E i \in 0..(Len(s) - Len(p)) : SubSeq(s, i + 1, i + Len(p)) = p

\* s.split(c) for a one-character separator: always at least one piece
RECURSIVE Split(_, _)
Split(s, c) ==
    IF \A i \in 1..Len(s) : s[i] # c
    THEN <<s>>
    ELSE LET i == CHOOSE k \in 1..Len(s) :
                      s[k] = c /\ \A j \in 1..(k - 1) : s[j] # c
         IN  <<SubSeq(s, 1, i - 1)>> \o Split(SubSeq(s, i + 1, Len(s)), c)

\* c.join(ls)
RECURSIVE Join(_, _)
Join(ls, c) ==
    IF ls = <<>> THEN <<>>
    ELSE IF Len(ls) = 1 THEN ls[1]
    ELSE ls[1] \o <<c>> \o Join(Tail(ls), c)

\* s.rstrip(c)
RECURSIVE RStrip(_, _)
RStrip(s, c) ==
    IF s # <<>> /\ s[Len(s)] = c THEN RStrip(SubSeq(s, 1, Len(s) - 1), c) ELSE s

-----------------------------------------------------------------------------
(* filter_diff_by_file *)

\* the literal 'diff --git'
Marker == <<"d", "i", "f", "f", " ", "-", "-", "g", "i", "t">>

\* a flag that starts set
InitialFlagTrue == TRUE

\* in_target_file before the loop
InitialFlag == FALSE

\* the path test made on every line, header or not
NextFlagAnyLine(flag, line, target) == Contains(line, target)

\* a flag that a later header never clears
NextFlagSticky(flag, line, target) ==
    IF StartsWith(line, Marker) THEN flag \/ Contains(line, target) ELSE flag

\* in_target_file after looking at line: re-evaluated on a header line
NextFlag(flag, line, target) ==
    IF StartsWith(line, Marker) THEN Contains(line, target) ELSE flag

\* the line kept or dropped on the flag of the line before it
LoopBodyKeepFirst(st, line, target) ==
    [flag |-> NextFlag(st.flag, line, target),
     out  |-> IF st.flag THEN Append(st.out, line) ELSE st.out]

\* blank lines never kept
LoopBodySkipBlank(st, line, target) ==
    LET flag == NextFlag(st.flag, line, target)
    IN  [flag |-> flag,
         out  |-> IF flag /\ line # <<>> THEN Append(st.out, line) ELSE st.out]

\* One iteration of the loop over lines: st = [flag, out] is (in_target_file,
\* result); the flag is re-evaluated first, then the line is kept or dropped.
LoopBody(st, line, target) ==
    LET flag == NextFlag(st.flag, line, target)
    IN  [flag |-> flag,
         out  |-> IF flag THEN Append(st.out, line) ELSE st.out]

RECURSIVE Loop(_, _, _)
Loop(st, ls, target) ==
    IF ls = <<>> THEN st
    ELSE Loop(LoopBody(st, Head(ls), target), Tail(ls), target)

\* every kept line followed by a newline
FilterJoinTerminated(d, target) ==
    LET final == Loop([flag |-> InitialFlag, out |-> <<>>], Split(d, NL), target)
    IN  IF final.out = <<>> THEN <<>> ELSE Join(final.out, NL) \o <<NL>>

filter_diff_by_file(d, target) ==
    LET lines == Split(d, NL)
        final == Loop([flag |-> InitialFlag, out |-> <<>>], lines, target)
    IN  Join(final.out, NL)

-----------------------------------------------------------------------------
(* Inputs of the filter_diff_by_file runs *)

MaxLines == 5

Ha == Marker \o <<" ", "a">>
Hb == Marker \o <<" ", "b">>

\* two header lines, a blank line, a content line holding the path "a", and a
\* line that holds the marker and the path "b" but does not start with it
LineSet == {Ha, Hb, <<>>, <<"+", "a">>, <<" ">> \o Hb}

\* paths of one header, a string found in content lines only, a string found
\* in every header, and the empty string
Targets == {<<"a">>, <<"b">>, <<"+", "a">>, <<"g", "i", "t">>, <<>>}

\* every text of 1..MaxLines lines drawn from LineSet
Diffs == {Join(ls, NL) : ls \in UNION {[1..n -> LineSet] : n \in 1..MaxLines}}

GIdle ==
    /\ gpc = "idle" /\ pr_identifier = <<>> /\ repo_arg = NoneV
    /\ repo = NoneV /\ file_arg = NoneV
    /\ pr_number = <<>> /\ cmd = <<>> /\ gh_stdout = <<>> /\ printed = NoneV
    /\ gexit = 0 /\ shape = <<>>

RIdle ==
    /\ rpc = "idle" /\ comments_file = "ok" /\ comments = <<>>
    /\ commit_sha_arg = NoneV /\ commit_sha = NoneV /\ body_arg = NoneV
    /\ event = "COMMENT" /\ payload = <<>> /\ sha_calls = 0 /\ post_calls = 0
    /\ sha_result = "none" /\ post_result = "none" /\ summary = FALSE
    /\ rexit = 0

InitFilter ==
    /\ fpc = "call"
    /\ diff \in Diffs
    /\ filepath \in Targets
    /\ result = <<>>
    /\ result2 = <<>>
    /\ GIdle
    /\ RIdle

\* result = filter_diff_by_file(diff, filepath)
CallFilter ==
    /\ fpc = "call"
    /\ result' = filter_diff_by_file(diff, filepath)
    /\ fpc' = "filtered"
    /\ UNCHANGED <<diff, filepath, result2, gvars, rvars>>

\* result2 = filter_diff_by_file(result, filepath)
CallFilterAgain ==
    /\ fpc = "filtered"
    /\ result2' = filter_diff_by_file(result, filepath)
    /\ fpc' = "refiltered"
    /\ UNCHANGED <<diff, filepath, result, gvars, rvars>>

NextFilter == CallFilter \/ CallFilterAgain

SpecFilter == InitFilter /\ [][NextFilter]_vars

-----------------------------------------------------------------------------
(* get_pr_diff.py as a process: main calls get_pr_diff and prints *)

Slash == "/"
Http == <<"h", "t", "t", "p">>

\* s.rstrip('/') that removes one slash at most
RStripOne(s, c) ==
    IF s # <<>> /\ s[Len(s)] = c THEN SubSeq(s, 1, Len(s) - 1) ELSE s

\* pr_identifier.rstrip('/')
StripTrailing(s, c) == RStrip(s, c)

\* parts[-k], for k <= len(parts)
FromEnd(parts, k) == parts[Len(parts) - k + 1]

\* parts = pr_identifier.rstrip('/').split('/')
PartsOf(id) == Split(StripTrailing(id, Slash), Slash)

\* f"{parts[-4]}/{parts[-3]}"
RepoOf(parts) == FromEnd(parts, 4) \o <<Slash>> \o FromEnd(parts, 3)

GhPrDiff == << <<"g", "h">>, <<"p", "r">>, <<"d", "i", "f", "f">> >>
RepoFlag == <<"-", "-", "r", "e", "p", "o">>

\* ---- inputs ----
MaxSlashes == 2

Host == <<"g", "i", "t", "h", "u", "b", ".", "c", "o", "m">>
Pull == <<"p", "u", "l", "l">>
Schemes == {Http \o <<":">>, Http \o <<"s", ":">>}
Owners == {<<"a", "c", "m", "e">>, <<"o">>}
Repos == {<<"w", "i", "d", "g", "e", "t", "s">>, <<"r">>}
Numbers == {<<"4", "2">>, <<"7">>}

Slashes(k) == [i \in 1..k |-> Slash]

\* <scheme>//github.com/<owner>/<repo>/pull/<number> and k trailing slashes
Url(sch, o, r, n, k) ==
    sch \o <<Slash, Slash>> \o Host \o <<Slash>> \o o \o <<Slash>> \o r
        \o <<Slash>> \o Pull \o <<Slash>> \o n \o Slashes(k)

UrlInputs ==
    {[id |-> Url(sch, o, r, n, k),
      shape |-> [kind |-> "url", owner |-> o, repo |-> r, number |-> n,
                 slashes |-> k]] :
        sch \in Schemes, o \in Owners, r \in Repos, n \in Numbers,
        k \in 0..MaxSlashes}

\* identifiers that do not start with 'http'
BareInputs ==
    {[id |-> b, shape |-> [kind |-> "bare"]] :
        b \in Numbers \cup {<<"o", Slash, "r", Slash, "7">>,
                            <<"h", "t", "t">>, <<"7", Slash>>}}

\* identifiers that start with 'http' and are no pull-request URL
OtherInputs ==
    {[id |-> x, shape |-> [kind |-> "other"]] :
        x \in {Http,
               Http \o <<":", Slash, Slash>> \o Host,
               Http \o <<":", Slash, Slash>> \o Host \o <<Slash>> \o Pull
                    \o <<Slash, "7">>}}

\* what gh pr diff may print
GhOutputs == {<<>>, Ha \o <<NL, "+", "a", NL>> \o Hb \o <<NL, "+", "a", NL>>}

FIdle ==
    /\ fpc = "idle" /\ diff = <<>> /\ filepath = <<>> /\ result = <<>>
    /\ result2 = <<>>

InitGet ==
    /\ gpc = "start"
    /\ \E inp \in UrlInputs \cup BareInputs \cup OtherInputs :
          pr_identifier = inp.id /\ shape = inp.shape
    /\ repo_arg \in {NoneV, <<>>, <<"x", Slash, "y">>}
    /\ repo = repo_arg
    /\ file_arg \in {NoneV, <<"a">>}
    /\ pr_number = NoneV
    /\ cmd = <<>>
    /\ gh_stdout = NoneV
    /\ printed = NoneV
    /\ gexit = 0
    /\ FIdle
    /\ RIdle

\* lines 25-31, a URL: the number is the last part, the repo is inferred
\* when none was given
ResolveUrl ==
    /\ gpc = "start"
    /\ StartsWith(pr_identifier, Http)
    /\ LET parts == PartsOf(pr_identifier)
       IN  /\ Truthy(repo) \/ Len(parts) >= 4
           /\ pr_number' = FromEnd(parts, 1)
           /\ repo' = IF Truthy(repo) THEN repo ELSE RepoOf(parts)
    /\ gpc' = "resolved"
    /\ UNCHANGED <<pr_identifier, repo_arg, file_arg, cmd, gh_stdout, printed,
                   gexit, shape, fvars, rvars>>

\* line 29 with fewer than four parts: IndexError, which nothing catches
ResolveIndexError ==
    /\ gpc = "start"
    /\ StartsWith(pr_identifier, Http)
    /\ ~Truthy(repo)
    /\ Len(PartsOf(pr_identifier)) < 4
    /\ pr_number' = FromEnd(PartsOf(pr_identifier), 1)
    /\ gexit' = 1
    /\ gpc' = "exit"
    /\ UNCHANGED <<pr_identifier, repo_arg, repo, file_arg, cmd, gh_stdout,
                   printed, shape, fvars, rvars>>

\* line 31: the identifier is the number
ResolveNumber ==
    /\ gpc = "start"
    /\ ~StartsWith(pr_identifier, Http)
    /\ pr_number' = pr_identifier
    /\ gpc' = "resolved"
    /\ UNCHANGED <<pr_identifier, repo_arg, repo, file_arg, cmd, gh_stdout,
                   printed, gexit, shape, fvars, rvars>>

\* lines 34-36
BuildCmd ==
    /\ gpc = "resolved"
    /\ cmd' = GhPrDiff \o <<pr_number>>
                 \o (IF Truthy(repo) THEN <<RepoFlag, repo>> ELSE <<>>)
    /\ gpc' = "built"
    /\ UNCHANGED <<pr_identifier, repo_arg, repo, file_arg, pr_number,
                   gh_stdout, printed, gexit, shape, fvars, rvars>>

\* lines 38-52 and main's print: gh succeeds, the diff is filtered when a
\* file was asked for, and printed
FetchOk ==
    /\ gpc = "built"
    /\ \E out \in GhOutputs :
          /\ gh_stdout' = out
          /\ printed' = IF Truthy(file_arg)
                        THEN filter_diff_by_file(out, file_arg) ELSE out
    /\ gexit' = 0
    /\ gpc' = "exit"
    /\ UNCHANGED <<pr_identifier, repo_arg, repo, file_arg, pr_number, cmd,
                   shape, fvars, rvars>>

\* lines 54-56: gh fails, sys.exit(1)
FetchFail ==
    /\ gpc = "built"
    /\ gexit' = 1
    /\ gpc' = "exit"
    /\ UNCHANGED <<pr_identifier, repo_arg, repo, file_arg, pr_number, cmd,
                   gh_stdout, printed, shape, fvars, rvars>>

NextGet ==
    \/ ResolveUrl
    \/ ResolveIndexError
    \/ ResolveNumber
    \/ BuildCmd
    \/ FetchOk
    \/ FetchFail

SpecGet == InitGet /\ [][NextGet]_vars

\* C7: with no repo passed, a URL .../<owner>/<repo>/pull/<number>, with or
\* without trailing slashes, resolves to <number> and '<owner>/<repo>'; an
\* identifier that does not start with 'http' is the number itself, no repo is
\* inferred and the gh command carries no --repo argument.
C7_Resolution ==
    (gpc # "start" /\ ~Truthy(repo_arg)) =>
        /\ shape.kind = "url" =>
              /\ pr_number = shape.number
              /\ repo = shape.owner \o <<Slash>> \o shape.repo
              /\ gpc \in {"built", "exit"} =>
                    cmd = GhPrDiff \o <<shape.number, RepoFlag,
                                        shape.owner \o <<Slash>> \o shape.repo>>
        /\ shape.kind = "bare" =>
              /\ pr_number = pr_identifier
              /\ repo = repo_arg
              /\ gpc \in {"built", "exit"} => cmd = GhPrDiff \o <<pr_identifier>>

\* https://github.com/acme/widgets/pull/42// with no repo passed
C7_Witness ==
    /\ gpc = "built"
    /\ repo_arg = NoneV
    /\ shape.kind = "url"
    /\ shape.slashes = 2
    /\ pr_identifier = Url(Http \o <<"s", ":">>, <<"a", "c", "m", "e">>,
                           <<"w", "i", "d", "g", "e", "t", "s">>,
                           <<"4", "2">>, 2)
    /\ pr_number = <<"4", "2">>
    /\ cmd[5] = RepoFlag

-----------------------------------------------------------------------------
(* The structure of a diff, stated on its lines *)

IsHeader(l) == StartsWith(l, Marker)

\* the header line that opens the section line i lies in; 0 before the first
HeaderOf(hs, i) ==
    IF \E h \in hs : h <= i
    THEN CHOOSE h \in hs : h <= i /\ \A g \in hs : g <= i => g <= h
    ELSE 0

\* the last line of the section that header h opens, in a diff of n lines
SectionEnd(hs, n, h) ==
    IF \E g \in hs : g > h
    THEN (CHOOSE g \in hs : g > h /\ \A k \in hs : k > h => g <= k) - 1
    ELSE n

\* the lines of ls of index set S, in their order in ls
LinesAt(ls, S) ==
    [k \in 1..Cardinality(S) |->
        ls[CHOOSE i \in S : Cardinality({j \in S : j < i}) = k - 1]]

MaxOf(S) == CHOOSE i \in S : \A j \in S : j <= i

\* the text of the lines of index set S as it stands in the input: every line
\* of the input but the last is followed by a newline
TextAt(ls, S) ==
    LET f[k \in 0..Len(ls)] ==
            IF k = 0 THEN <<>>
            ELSE f[k - 1] \o
                 (IF k \notin S THEN <<>>
                  ELSE ls[k] \o (IF k < Len(ls) THEN <<NL>> ELSE <<>>))
    IN  f[Len(ls)]

EndsWithNL(s) == s # <<>> /\ s[Len(s)] = NL

\* lines:    the lines of d
\* headers:  the indices of its header lines
\* matching: the headers that hold the target
\* kept:     the lines lying in a section whose header holds the target
Sections(d, target) ==
    LET ls == Split(d, NL)
        hs == {i \in 1..Len(ls) : IsHeader(ls[i])}
        ms == {h \in hs : Contains(ls[h], target)}
    IN  [lines    |-> ls,
         headers  |-> hs,
         matching |-> ms,
         kept     |-> {i \in 1..Len(ls) : HeaderOf(hs, i) \in ms}]

Filtered == fpc \in {"filtered", "refiltered"}

-----------------------------------------------------------------------------
(* Claims on filter_diff_by_file, checked under SpecFilter *)

\* C1: in a diff of at least two file sections, a target held by exactly one
\* section's header line yields exactly that section's lines, in order, the
\* header first, and no line of another section.
C1_UniqueSection ==
    Filtered =>
        LET S == Sections(diff, filepath)
        IN  (Cardinality(S.headers) >= 2 /\ Cardinality(S.matching) = 1) =>
                LET h == CHOOSE x \in S.matching : TRUE
                    out == Split(result, NL)
                IN  /\ out = SubSeq(S.lines, h,
                                    SectionEnd(S.headers, Len(S.lines), h))
                    /\ out[1] = S.lines[h]
                    /\ IsHeader(out[1])
                    /\ \A k \in 2..Len(out) : ~IsHeader(out[k])

\* the matching section is not the first one, has several lines, and other
\* sections come before and after it
C1_Witness ==
    /\ fpc = "filtered"
    /\ result # <<>>
    /\ LET S == Sections(diff, filepath)
       IN  /\ Cardinality(S.headers) >= 3
           /\ Cardinality(S.matching) = 1
           /\ \E h \in S.matching :
                 /\ SectionEnd(S.headers, Len(S.lines), h) > h
                 /\ \E g \in S.headers : g < h
                 /\ \E g \in S.headers : g > h

\* C2 as stated: a target held by every section's header line gives back the
\* diff unchanged, for every diff (here: every diff that has a file section).
C2_AllSectionsUnchanged ==
    Filtered =>
        LET S == Sections(diff, filepath)
        IN  (S.headers # {} /\ S.matching = S.headers) => result = diff

\* C2 amended: the same for a diff whose first line is a header line.
C2_AllSectionsFromFirstHeader ==
    Filtered =>
        LET S == Sections(diff, filepath)
        IN  (S.matching = S.headers /\ IsHeader(S.lines[1])) => result = diff

\* several sections, a diff that ends with a newline, a target that is not
\* the empty string
C2_Witness ==
    /\ fpc = "filtered"
    /\ filepath # <<>>
    /\ result = diff
    /\ LET S == Sections(diff, filepath)
       IN  /\ Cardinality(S.headers) >= 2
           /\ S.matching = S.headers
           /\ IsHeader(S.lines[1])
           /\ S.lines[Len(S.lines)] = <<>>

\* C3: a target held by no header line gives the empty string, also when the
\* diff has no header line or has lines before the first header.
C3_NoMatchEmpty ==
    Filtered =>
        LET S == Sections(diff, filepath)
        IN  S.matching = {} => result = <<>>

\* headers exist, lines precede the first one, and a content line holds the
\* target
C3_Witness ==
    /\ fpc = "filtered"
    /\ result = <<>>
    /\ LET S == Sections(diff, filepath)
       IN  /\ S.headers # {}
           /\ S.matching = {}
           /\ ~IsHeader(S.lines[1])
           /\ \E i \in 1..Len(S.lines) :
                 S.lines[i] # <<>> /\ Contains(S.lines[i], filepath)

\* C4: filtering the filtered text again by the same target changes nothing.
C4_Idempotent ==
    fpc = "refiltered" => result2 = result

\* the first pass kept several sections and dropped something
C4_Witness ==
    /\ fpc = "refiltered"
    /\ result # <<>>
    /\ result # diff
    /\ result2 = result
    /\ Cardinality(Sections(diff, filepath).matching) >= 2

\* C5: the output is exactly the lines whose most recent header line, at or
\* before them, holds the target, in their original order; a header line is
\* judged by its own content.
C5_KeptLines ==
    Filtered =>
        LET S == Sections(diff, filepath)
        IN  /\ result = Join(LinesAt(S.lines, S.kept), NL)
            /\ \A h \in S.headers :
                  (h \in S.kept) <=> Contains(S.lines[h], filepath)

\* matching sections lie on both sides of one that does not match, and lines
\* precede the first header
C5_Witness ==
    /\ fpc = "filtered"
    /\ LET S == Sections(diff, filepath)
       IN  /\ \E h1, h2, h3 \in S.headers :
                 /\ h1 < h2 /\ h2 < h3
                 /\ h1 \in S.matching /\ h2 \notin S.matching
                 /\ h3 \in S.matching
           /\ ~IsHeader(S.lines[1])
           /\ result = Join(LinesAt(S.lines, S.kept), NL)

\* C10 as stated: the output ends with a newline exactly when the kept
\* sections' text in the input does, wherever the kept sections lie.
C10_TrailingNewlineAsInput ==
    Filtered =>
        LET S == Sections(diff, filepath)
        IN  S.kept # {} =>
               (EndsWithNL(result) <=> EndsWithNL(TextAt(S.lines, S.kept)))

\* C10 amended: splitting the output gives back exactly the kept lines, and
\* the output is the kept sections' text less the one newline that follows
\* the last kept line when a dropped line comes after it.
C10_ExactButLastNewline ==
    Filtered =>
        LET S == Sections(diff, filepath)
        IN  S.kept # {} =>
               /\ Split(result, NL) = LinesAt(S.lines, S.kept)
               /\ TextAt(S.lines, S.kept) =
                     result \o (IF MaxOf(S.kept) < Len(S.lines)
                                THEN <<NL>> ELSE <<>>)

\* a kept section that ends with a blank line is followed by a dropped one,
\* in a diff that ends with a newline
C10_Witness ==
    /\ fpc = "filtered"
    /\ EndsWithNL(result)
    /\ LET S == Sections(diff, filepath)
       IN  /\ S.kept # {}
           /\ MaxOf(S.kept) < Len(S.lines)
           /\ S.lines[MaxOf(S.kept)] = <<>>
           /\ S.lines[Len(S.lines)] = <<>>

-----------------------------------------------------------------------------
(* submit_review.py as a process: main loads the comments and calls          *)
(* submit_review.  A comment record is a function on its keys; the JSON      *)
(* value of start_line is <<>> for null and <<n>> for the number n.          *)

JNull == <<>>
JNum(n) == <<n>>

RequiredKeys == {"path", "line", "body"}

\* start_line copied whenever it is truthy
FormatCommentTruthy(comment) ==
    [k \in RequiredKeys |-> comment[k]] @@ [side |-> "RIGHT"] @@
    (IF "start_line" \in DOMAIN comment /\ comment["start_line"] # JNull
        /\ comment["start_line"] # JNum(0)
     THEN [start_line |-> comment["start_line"], start_side |-> "RIGHT"]
     ELSE <<>>)

\* lines 44-54: one formatted_comment
FormatComment(comment) ==
    [k \in RequiredKeys |-> comment[k]] @@ [side |-> "RIGHT"] @@
    (IF "start_line" \in DOMAIN comment /\ comment["start_line"] # JNull
     THEN [start_line |-> comment["start_line"], start_side |-> "RIGHT"]
     ELSE <<>>)

\* lines 42-56: formatted_comments
RECURSIVE FormatAll(_)
FormatAll(cs) ==
    IF cs = <<>> THEN <<>>
    ELSE <<FormatComment(Head(cs))>> \o FormatAll(Tail(cs))

\* comment['path'], comment['line'], comment['body'] raise no KeyError
HasRequired(comment) == RequiredKeys \subseteq DOMAIN comment

\* ---- inputs ----
MaxComments == 2

LineNumbers == {1, 2}
StartLines == {JNull, JNum(0), JNum(1), JNum(3)}

CommentRecords ==
    {[path |-> p, line |-> l, body |-> "nit"] :
        p \in {"x.py", "y.py"}, l \in LineNumbers}
    \cup
    {[path |-> p, line |-> l, body |-> "nit", start_line |-> sl] :
        p \in {"x.py", "y.py"}, l \in LineNumbers, sl \in StartLines}
    \cup
    {[path |-> "x.py", line |-> 1]}

CommentLists == UNION {[1..n -> CommentRecords] : n \in 0..MaxComments}

InitReview ==
    /\ rpc = "load"
    /\ comments_file \in {"missing", "invalid", "ok"}
    /\ comments \in (IF comments_file = "ok" THEN CommentLists ELSE {<<>>})
    /\ commit_sha_arg \in {NoneV, <<"c", "0">>}
    /\ commit_sha = commit_sha_arg
    /\ body_arg \in {NoneV, <<"o", "k">>}
    /\ event \in {"COMMENT", "REQUEST_CHANGES"}
    /\ payload = <<>>
    /\ sha_calls = 0
    /\ post_calls = 0
    /\ sha_result = "none"
    /\ post_result = "none"
    /\ summary = FALSE
    /\ rexit = 0
    /\ FIdle
    /\ GIdle

\* main, lines 122-124: FileNotFoundError, sys.exit(1)
LoadMissing ==
    /\ rpc = "load"
    /\ comments_file = "missing"
    /\ rexit' = 1
    /\ rpc' = "exit"
    /\ UNCHANGED <<comments_file, comments, commit_sha_arg, commit_sha, body_arg,
                   event, payload, sha_calls, post_calls, sha_result,
                   post_result, summary, fvars, gvars>>

\* main, lines 125-127: JSONDecodeError, sys.exit(1)
LoadInvalid ==
    /\ rpc = "load"
    /\ comments_file = "invalid"
    /\ rexit' = 1
    /\ rpc' = "exit"
    /\ UNCHANGED <<comments_file, comments, commit_sha_arg, commit_sha, body_arg,
                   event, payload, sha_calls, post_calls, sha_result,
                   post_result, summary, fvars, gvars>>

\* main, lines 119-121 and 129: the comments are loaded, submit_review is
\* entered
LoadOk ==
    /\ rpc = "load"
    /\ comments_file = "ok"
    /\ rpc' = "sha"
    /\ UNCHANGED <<comments_file, comments, commit_sha_arg, commit_sha, body_arg,
                   event, payload, sha_calls, post_calls, sha_result,
                   post_result, summary, rexit, fvars, gvars>>

\* line 29 with a commit SHA given
ShaGiven ==
    /\ rpc = "sha"
    /\ Truthy(commit_sha)
    /\ rpc' = "format"
    /\ UNCHANGED <<comments_file, comments, commit_sha_arg, commit_sha, body_arg,
                   event, payload, sha_calls, post_calls, sha_result,
                   post_result, summary, rexit, fvars, gvars>>

\* lines 29-33: gh pr view succeeds; its stripped output may be empty
FetchShaOk ==
    /\ rpc = "sha"
    /\ ~Truthy(commit_sha)
    /\ sha_calls' = sha_calls + 1
    /\ sha_result' = "ok"
    /\ commit_sha' \in {<<>>, <<"h", "0">>}
    /\ rpc' = "format"
    /\ UNCHANGED <<comments_file, comments, commit_sha_arg, body_arg, event,
                   payload, post_calls, post_result, summary, rexit, fvars,
                   gvars>>

\* the lookup fails and the run goes on with no SHA
FetchShaFailContinue ==
    /\ rpc = "sha"
    /\ ~Truthy(commit_sha)
    /\ sha_calls' = sha_calls + 1
    /\ sha_result' = "fail"
    /\ rpc' = "format"
    /\ UNCHANGED <<comments_file, comments, commit_sha_arg, commit_sha, body_arg,
                   event, payload, post_calls, post_result, summary, rexit,
                   fvars, gvars>>

\* lines 34-36: gh pr view fails, sys.exit(1)
FetchShaFail ==
    /\ rpc = "sha"
    /\ ~Truthy(commit_sha)
    /\ sha_calls' = sha_calls + 1
    /\ sha_result' = "fail"
    /\ rexit' = 1
    /\ rpc' = "exit"
    /\ UNCHANGED <<comments_file, comments, commit_sha_arg, commit_sha, body_arg,
                   event, payload, post_calls, post_result, summary, fvars,
                   gvars>>

\* lines 39-69: the comments are formatted and the payload is built
BuildPayload ==
    /\ rpc = "format"
    /\ \A i \in 1..Len(comments) : HasRequired(comments[i])
    /\ payload' =
          << [commit_id |-> commit_sha, event |-> event,
              comments |-> FormatAll(comments)] @@
             (IF Truthy(body_arg) THEN [body |-> body_arg] ELSE <<>>) >>
    /\ rpc' = "post"
    /\ UNCHANGED <<comments_file, comments, commit_sha_arg, commit_sha, body_arg,
                   event, sha_calls, post_calls, sha_result, post_result,
                   summary, rexit, fvars, gvars>>

\* lines 44-48 on a record that lacks a key: KeyError, which nothing catches
BuildPayloadKeyError ==
    /\ rpc = "format"
    /\ \E i \in 1..Len(comments) : ~HasRequired(comments[i])
    /\ rexit' = 1
    /\ rpc' = "exit"
    /\ UNCHANGED <<comments_file, comments, commit_sha_arg, commit_sha, body_arg,
                   event, payload, sha_calls, post_calls, sha_result,
                   post_result, summary, fvars, gvars>>

\* lines 81-89: the POST succeeds and its output parses
PostOk ==
    /\ rpc = "post"
    /\ post_calls' = post_calls + 1
    /\ post_result' = "ok"
    /\ rpc' = "returned"
    /\ UNCHANGED <<comments_file, comments, commit_sha_arg, commit_sha, body_arg,
                   event, payload, sha_calls, sha_result, summary, rexit, fvars,
                   gvars>>

\* line 89: the POST succeeds and json.loads raises on its output, which
\* nothing catches
PostOkBadOutput ==
    /\ rpc = "post"
    /\ post_calls' = post_calls + 1
    /\ post_result' = "ok"
    /\ rexit' = 1
    /\ rpc' = "exit"
    /\ UNCHANGED <<comments_file, comments, commit_sha_arg, commit_sha, body_arg,
                   event, payload, sha_calls, sha_result, summary, fvars, gvars>>

\* lines 90-93: the POST fails, sys.exit(1)
PostFail ==
    /\ rpc = "post"
    /\ post_calls' = post_calls + 1
    /\ post_result' = "fail"
    /\ rexit' = 1
    /\ rpc' = "exit"
    /\ UNCHANGED <<comments_file, comments, commit_sha_arg, commit_sha, body_arg,
                   event, payload, sha_calls, sha_result, summary, fvars, gvars>>

\* main, lines 138-139: the response and the success summary are printed
PrintSummary ==
    /\ rpc = "returned"
    /\ summary' = TRUE
    /\ rexit' = 0
    /\ rpc' = "exit"
    /\ UNCHANGED <<comments_file, comments, commit_sha_arg, commit_sha, body_arg,
                   event, payload, sha_calls, post_calls, sha_result,
                   post_result, fvars, gvars>>

NextReview ==
    \/ LoadMissing
    \/ LoadInvalid
    \/ LoadOk
    \/ ShaGiven
    \/ FetchShaOk
    \/ FetchShaFail
    \/ BuildPayload
    \/ BuildPayloadKeyError
    \/ PostOk
    \/ PostOkBadOutput
    \/ PostFail
    \/ PrintSummary

SpecReview == InitReview /\ [][NextReview]_vars

-----------------------------------------------------------------------------
(* Claims on submit_review.py, checked under SpecReview *)

HasStartLine(c) == "start_line" \in DOMAIN c /\ c["start_line"] # JNull

\* C6: the payload's comments have the length and order of the input; the
\* i-th copies path, line and body of the i-th input and has side "RIGHT"; it
\* has start_line (the input's) and start_side "RIGHT" exactly when the input
\* has a start_line key with a non-null value, and otherwise neither key.
C6_Reshape ==
    payload # <<>> =>
        LET out == payload[1].comments
        IN  /\ Len(out) = Len(comments)
            /\ \A i \in 1..Len(comments) :
                  /\ out[i].path = comments[i].path
                  /\ out[i].line = comments[i].line
                  /\ out[i].body = comments[i].body
                  /\ out[i].side = "RIGHT"
                  /\ IF HasStartLine(comments[i])
                     THEN /\ DOMAIN out[i] = {"path", "line", "body", "side",
                                              "start_line", "start_side"}
                          /\ out[i].start_line = comments[i].start_line
                          /\ out[i].start_side = "RIGHT"
                     ELSE DOMAIN out[i] = {"path", "line", "body", "side"}

\* a posted review of two comments that are the same record, with
\* start_line 0
C6_Witness ==
    /\ post_result = "ok"
    /\ Len(comments) = 2
    /\ comments[1] = comments[2]
    /\ HasStartLine(comments[1])
    /\ comments[1].start_line = JNum(0)
    /\ Len(payload[1].comments) = 2

\* C8: every comment placed in the review payload that has a start_line has
\* start_line <= line.
C8_StartLineAtMostLine ==
    payload # <<>> =>
        \A i \in 1..Len(payload[1].comments) :
            LET c == payload[1].comments[i]
            IN  "start_line" \in DOMAIN c => c.start_line[1] <= c.line

\* C9: a missing or invalid comments file ends the run non-zero before any
\* external command; a failed head-commit lookup ends it non-zero with no
\* POST; a failed POST ends it non-zero; each external command runs at most
\* once; the summary is printed only after a successful POST; an ended run
\* takes no further step.
C9_FailuresTerminal ==
    /\ sha_calls <= 1
    /\ post_calls <= 1
    /\ comments_file \in {"missing", "invalid"} =>
          /\ rpc \in {"load", "exit"}
          /\ sha_calls = 0 /\ post_calls = 0
          /\ rpc = "exit" => rexit # 0
    /\ sha_result = "fail" =>
          rpc = "exit" /\ rexit # 0 /\ post_calls = 0 /\ ~Truthy(commit_sha_arg)
    /\ post_result = "fail" => rpc = "exit" /\ rexit # 0 /\ ~summary
    /\ summary => post_result = "ok" /\ post_calls = 1
    /\ rpc = "exit" => ~ENABLED NextReview

\* the head commit was looked up, the POST then failed
C9_Witness ==
    /\ rpc = "exit"
    /\ sha_calls = 1
    /\ sha_result = "ok"
    /\ post_calls = 1
    /\ post_result = "fail"
    /\ rexit = 1
    /\ ~summary

=============================================================================
